---- MODULE Spec2Model ----
(***************************************************************************)
(* A model of src/app.py (TestGen Lite): the question bank, the filter,   *)
(* the instance list kept in the session state, the operations on it, the *)
(* resolution of an instance to a concrete question and the two Markdown  *)
(* exports.                                                                *)
(*                                                                         *)
(* Python strings are sequences of one-character strings, so that join,   *)
(* lower, strip, the substring test and str.format are computed and not   *)
(* assumed.  A Python dict is a function (a record when its keys are     *)
(* field names); d.get(k, default) is Get(d, k, default).  A call that    *)
(* raises returns Raise(e), a call that returns v returns Ok(v).          *)
(***************************************************************************)
EXTENDS Integers, Sequences, FiniteSets, TLC

VARIABLES instances, before, op, result, trip

vars == <<instances, before, op, result, trip>>

---------------------------------------------------------------------------
(* Bounds of the model *)

\* the longest instance list the model builds
MaxLen == 2
\* the longest list of ids one add_to_test call is given
MaxIds == 2

---------------------------------------------------------------------------
(* Python values *)

\* inst = {"qid": qid, "variant": None}: None, where the other values are indices
None == -1

NoneValue == [none |-> TRUE]
IsNone(v) == "none" \in DOMAIN v

Ok(v) == [ok |-> TRUE, val |-> v]
Raise(e) == [ok |-> FALSE, err |-> e]

Get(d, k, default) == IF k \in DOMAIN d THEN d[k] ELSE default

EmptyDict == [n \in {} |-> 0]
Put(d, k, v) == [n \in DOMAIN d \cup {k} |-> IF n = k THEN v ELSE d[n]]

Range(s) == {s[i] : i \in DOMAIN s}

\* seq[i] of Python, 0-based, a negative index counting from the end
PyIndex(s, i) ==
  IF 0 <= i /\ i < Len(s) THEN Ok(s[i + 1])
  ELSE IF i < 0 /\ -Len(s) <= i THEN Ok(s[Len(s) + i + 1])
  ELSE Raise("IndexError")

---------------------------------------------------------------------------
(* Python strings *)

Digits == <<"0", "1", "2", "3", "4", "5", "6", "7", "8", "9">>

RECURSIVE NatToStr(_)
NatToStr(n) ==
  IF n < 10 THEN <<Digits[n + 1]>>
  ELSE NatToStr(n \div 10) \o <<Digits[(n % 10) + 1]>>

\* str(n) and f"{n}" of an int
IntToStr(n) == IF n < 0 THEN <<"-">> \o NatToStr(-n) ELSE NatToStr(n)

Upper == <<"A", "B", "C", "D", "E", "F", "G", "H", "I", "J", "K", "L", "M",
           "N", "O", "P", "Q", "R", "S", "T", "U", "V", "W", "X", "Y", "Z">>
LowerOf == <<"a", "b", "c", "d", "e", "f", "g", "h", "i", "j", "k", "l", "m",
             "n", "o", "p", "q", "r", "s", "t", "u", "v", "w", "x", "y", "z">>

LowerChar(c) ==
  IF \E i \in DOMAIN Upper : Upper[i] = c
  THEN LowerOf[CHOOSE i \in DOMAIN Upper : Upper[i] = c]
  ELSE c

\* s.lower()
Lower(s) == [i \in DOMAIN s |-> LowerChar(s[i])]

Whitespace == {" ", "\n", "\t"}

\* s.strip()
Strip(s) ==
  LET keep == {i \in DOMAIN s : s[i] \notin Whitespace}
  IN IF keep = {} THEN <<>>
     ELSE LET lo == CHOOSE i \in keep : \A j \in keep : i <= j
              hi == CHOOSE i \in keep : \A j \in keep : j <= i
          IN SubSeq(s, lo, hi)

\* sep.join(parts)
RECURSIVE Join(_, _)
Join(parts, sep) ==
  IF parts = <<>> THEN <<>>
  ELSE IF Len(parts) = 1 THEN parts[1]
  ELSE parts[1] \o sep \o Join(Tail(parts), sep)

\* s in hay
Contains(hay, s) ==
  \E i \in 0..(Len(hay) - Len(s)) : SubSeq(hay, i + 1, i + Len(s)) = s

IndexOf(s, c) ==
  IF \E i \in DOMAIN s : s[i] = c
  THEN CHOOSE i \in DOMAIN s : s[i] = c /\ \A j \in 1..(i - 1) : s[j] # c
  ELSE 0

\* template.format(**params): each {name} is replaced by str(params[name]); a
\* name that is no key of params raises KeyError, an unmatched brace ValueError
RECURSIVE Format(_, _)
Format(t, params) ==
  IF t = <<>> THEN Ok(<<>>)
  ELSE IF Head(t) = "}" THEN Raise("ValueError")
  ELSE IF Head(t) # "{" THEN
    LET rest == Format(Tail(t), params)
    IN IF rest.ok THEN Ok(<<Head(t)>> \o rest.val) ELSE rest
  ELSE
    LET close == IndexOf(t, "}")
        name == SubSeq(t, 2, close - 1)
    IN IF close = 0 THEN Raise("ValueError")
       ELSE IF name \notin DOMAIN params THEN Raise("KeyError")
       ELSE LET rest == Format(SubSeq(t, close + 1, Len(t)), params)
            IN IF rest.ok THEN Ok(IntToStr(params[name]) \o rest.val) ELSE rest

---------------------------------------------------------------------------
(* The question bank: QUESTIONS = load_questions(Path("questions.json")).    *)
(* The bank is read once and never written.  It holds one question of each  *)
(* shape the code tells apart.                                              *)

Q1 == [id |-> <<"Q", "1">>, static |-> TRUE,
       text |-> <<"2", "+", "2", "=", "?">>, solution |-> <<"4">>, points |-> 1,
       courses |-> << <<"M", "1">> >>, qtypes |-> << <<"c", "a", "l", "c">> >>,
       topics |-> << <<"a", "d", "d">> >>]

\* non-static, three variants, the last without a solution; legacy "topic"
Q2 == [id |-> <<"Q", "2">>, static |-> FALSE,
       variants |-> << [text |-> <<"3", "+", "1", "=", "?">>, solution |-> <<"4">>],
                       [text |-> <<"1", "+", "1", "=", "?">>, solution |-> <<"2">>],
                       [text |-> <<"5", "+", "0", "=", "?">>] >>,
       courses |-> << <<"M", "1">>, <<"M", "2">> >>, qtypes |-> << <<"m", "c">> >>,
       topic |-> <<"A", "l", "g">>]

\* non-static, params {n1: {min: 1, max: 2}, n2: {min: 2, max: 2}, sum: {expr: "n1+n2"}}
Q3 == [id |-> <<"Q", "3">>, static |-> FALSE,
       params |-> << [name |-> <<"n", "1">>, rule |-> [min |-> 1, max |-> 2]],
                     [name |-> <<"n", "2">>, rule |-> [min |-> 2, max |-> 2]],
                     [name |-> <<"s", "u", "m">>,
                      rule |-> [expr |-> [op |-> "+", l |-> [var |-> <<"n", "1">>],
                                                      r |-> [var |-> <<"n", "2">>]]]] >>,
       text_template |-> <<"{", "n", "1", "}", "+", "{", "n", "2", "}", "=",
                           "{", "s", "u", "m", "}">>,
       solution_template |-> <<"{", "s", "u", "m", "}">>,
       courses |-> << <<"M", "2">> >>,
       topics |-> << <<"a", "d", "d">>, <<"A", "l", "g">> >>]

\* no "static" field (static by default), its own text and solution, and also
\* params {k: 7} (a literal rule) with a text_template
Q4 == [id |-> <<"Q", "4">>,
       text |-> <<"k", "*", "1", "=", "?">>, solution |-> <<"7">>,
       params |-> << [name |-> <<"k">>, rule |-> [lit |-> 7]] >>,
       text_template |-> <<"{", "k", "}", "*", "1", "=", "?">>,
       qtypes |-> << <<"c", "a", "l", "c">> >>]

\* text_template names {b}, which params does not declare
Q5 == [id |-> <<"Q", "5">>, static |-> FALSE,
       params |-> << [name |-> <<"a">>, rule |-> [min |-> 1, max |-> 1]] >>,
       text_template |-> <<"{", "a", "}", "+", "{", "b", "}", "=", "?">>,
       solution_template |-> <<"{", "a", "}">>,
       courses |-> << <<"M", "1">> >>]

\* params {s: {expr: "a+1"}, a: {min: 1, max: 1}}: s refers to a, declared after it
Q6 == [id |-> <<"Q", "6">>, static |-> FALSE,
       params |-> << [name |-> <<"s">>,
                      rule |-> [expr |-> [op |-> "+", l |-> [var |-> <<"a">>],
                                                      r |-> [num |-> 1]]]],
                     [name |-> <<"a">>, rule |-> [min |-> 1, max |-> 1]] >>,
       text_template |-> <<"{", "s", "}">>]

\* non-static with an empty list of variants
Q7 == [id |-> <<"Q", "7">>, static |-> FALSE, variants |-> <<>>,
       text |-> <<"0", "=", "?">>, solution |-> <<"0">>,
       topics |-> <<>>]

QUESTIONS == <<Q1, Q2, Q3, Q4, Q5, Q6, Q7>>

\* an id that is not in the bank
QX == <<"Q", "X">>

InBank(qid) == \E i \in DOMAIN QUESTIONS : QUESTIONS[i].id = qid

\* Q_BY_ID = {q["id"]: q for q in QUESTIONS}: the last question of an id wins
Q_BY_ID(qid) ==
  QUESTIONS[CHOOSE i \in DOMAIN QUESTIONS :
              /\ QUESTIONS[i].id = qid
              /\ \A j \in DOMAIN QUESTIONS : QUESTIONS[j].id = qid => j <= i]

---------------------------------------------------------------------------
(* The filter *)

get_question_topics(q) ==
  IF "topics" \in DOMAIN q THEN q.topics
  ELSE IF "topic" \in DOMAIN q /\ q.topic # <<>> THEN <<q.topic>>
  ELSE <<>>

VariantTexts(q) ==
  LET variants == Get(q, "variants", <<>>)
  IN [i \in DOMAIN variants |-> Get(variants[i], "text", <<>>)]

\* " ".join(text_parts).lower()
Haystack(q) ==
  Lower(Join(<< Get(q, "text", <<>>),
                Join(get_question_topics(q), <<" ">>),
                Join(Get(q, "qtypes", <<>>), <<" ">>),
                Join(Get(q, "courses", <<>>), <<" ">>),
                Get(q, "id", <<>>) >> \o VariantTexts(q), <<" ">>))

\* a bug the filter could have: the test without its "if course_filter:", so
\* that an empty selection keeps no question
CourseOkWithoutGuard(q, course_filter) ==
  Range(Get(q, "courses", <<>>)) \cap course_filter # {}

\* empty set: no restriction
CourseOk(q, course_filter) ==
  course_filter # {} => Range(Get(q, "courses", <<>>)) \cap course_filter # {}

StaticOk(q, static_filter) ==
  static_filter # {} =>
    LET is_static == Get(q, "static", TRUE)
    IN /\ is_static => "Static" \in static_filter
       /\ ~is_static => "Non-static" \in static_filter

QtypeOk(q, qtype_filter) ==
  qtype_filter # {} => Range(Get(q, "qtypes", <<>>)) \cap qtype_filter # {}

TopicOk(q, topic_filter) ==
  topic_filter # {} => Range(get_question_topics(q)) \cap topic_filter # {}

\* the needle is lowered but not stripped
SearchOk(q, search_text) ==
  Strip(search_text) # <<>> => Contains(Haystack(q), Lower(search_text))

question_matches_filters(q, course_filter, static_filter, qtype_filter, topic_filter, search_text) ==
  /\ CourseOk(q, course_filter)
  /\ StaticOk(q, static_filter)
  /\ QtypeOk(q, qtype_filter)
  /\ TopicOk(q, topic_filter)
  /\ SearchOk(q, search_text)

RECURSIVE FilterFrom(_, _)
FilterFrom(k, f) ==
  IF k > Len(QUESTIONS) THEN <<>>
  ELSE (IF question_matches_filters(QUESTIONS[k], f.course_filter, f.static_filter,
                                    f.qtype_filter, f.topic_filter, f.search_text)
        THEN <<QUESTIONS[k]>> ELSE <<>>) \o FilterFrom(k + 1, f)

\* f holds the five arguments
filtered_questions(f) == IF QUESTIONS = <<>> THEN <<>> ELSE FilterFrom(1, f)

---------------------------------------------------------------------------
(* Parameter generation *)

IsDict(rule) == "lit" \notin DOMAIN rule

\* eval(expr, {}, values): expr is its syntax tree; a name that is no key of
\* values (and no builtin) raises NameError
RECURSIVE Eval(_, _)
Eval(expr, values) ==
  IF "num" \in DOMAIN expr THEN Ok(expr.num)
  ELSE IF "var" \in DOMAIN expr THEN
    IF expr.var \in DOMAIN values THEN Ok(values[expr.var]) ELSE Raise("NameError")
  ELSE
    LET l == Eval(expr.l, values)
        r == Eval(expr.r, values)
    IN IF ~l.ok THEN l
       ELSE IF ~r.ok THEN r
       ELSE Ok(CASE expr.op = "+" -> l.val + r.val
                 [] expr.op = "-" -> l.val - r.val
                 [] expr.op = "*" -> l.val * r.val)

\* the loop of generate_params_for_question from entry k of spec on: the set of
\* its outcomes, one per draw of random.randint
RECURSIVE GenFrom(_, _, _)
GenFrom(spec, k, values) ==
  IF k > Len(spec) THEN {Ok(values)}
  ELSE
    LET name == spec[k].name
        rule == spec[k].rule
    IN IF IsDict(rule) /\ "min" \in DOMAIN rule /\ "max" \in DOMAIN rule THEN
         IF rule.min > rule.max THEN {Raise("ValueError")}
         ELSE UNION {GenFrom(spec, k + 1, Put(values, name, v)) : v \in rule.min..rule.max}
       ELSE IF IsDict(rule) /\ "expr" \in DOMAIN rule THEN
         LET e == Eval(rule.expr, values)
         IN IF e.ok THEN GenFrom(spec, k + 1, Put(values, name, e.val)) ELSE {e}
       ELSE GenFrom(spec, k + 1, Put(values, name, rule.lit))

generate_params_for_question(q) == GenFrom(Get(q, "params", <<>>), 1, EmptyDict)

---------------------------------------------------------------------------
(* The instance list *)

\* a bug add_to_test could have: random.randint(0, len(variants))
VariantChoicesInclusive(q) ==
  IF ~Get(q, "static", TRUE) /\ "variants" \in DOMAIN q /\ q.variants # <<>>
  THEN 0..Len(q.variants)
  ELSE {None}

\* the values add_to_test can give inst["variant"]
VariantChoices(q) ==
  IF ~Get(q, "static", TRUE) /\ "variants" \in DOMAIN q /\ q.variants # <<>>
  THEN 0..(Len(q.variants) - 1)
  ELSE {None}

\* the loop body of add_to_test for an id of the bank: the instances it can
\* build (Ok), or the exception of generate_params_for_question
NewInstances(qid) ==
  LET q == Q_BY_ID(qid)
  IN IF "params" \in DOMAIN q
     THEN {IF p.ok THEN Ok([qid |-> qid, variant |-> v, params |-> p.val]) ELSE p :
             v \in VariantChoices(q), p \in generate_params_for_question(q)}
     ELSE {Ok([qid |-> qid, variant |-> v]) : v \in VariantChoices(q)}

\* the outcomes of add_to_test(ids) on the list insts: the list it leaves and
\* whether it returned or raised (the instances appended before the raise stay)
RECURSIVE add_to_test(_, _)
add_to_test(insts, ids) ==
  IF ids = <<>> THEN {[instances |-> insts, result |-> Ok(NoneValue)]}
  ELSE
    LET qid == Head(ids)
    IN IF ~InBank(qid) THEN add_to_test(insts, Tail(ids))
       ELSE UNION {IF inst.ok
                   THEN add_to_test(Append(insts, inst.val), Tail(ids))
                   ELSE {[instances |-> insts, result |-> inst]}
                   : inst \in NewInstances(qid)}

Swap(insts, i, j) ==
  [k \in DOMAIN insts |-> IF k = i THEN insts[j] ELSE IF k = j THEN insts[i] ELSE insts[k]]

\* index is 0-based, as in the code
move_up(insts, index) ==
  IF index <= 0 \/ index >= Len(insts) THEN insts
  ELSE Swap(insts, index, index + 1)

move_down(insts, index) ==
  IF index < 0 \/ index >= Len(insts) - 1 THEN insts
  ELSE Swap(insts, index + 1, index + 2)

\* instances.pop(index)
Pop(insts, index) == SubSeq(insts, 1, index) \o SubSeq(insts, index + 2, Len(insts))

\* a bug remove_from_test could have: no lower bound, so that pop takes a
\* negative index from the end
remove_from_test_no_lower_bound(insts, index) ==
  IF index < Len(insts) /\ -Len(insts) <= index
  THEN Pop(insts, IF index < 0 THEN index + Len(insts) ELSE index)
  ELSE insts

remove_from_test(insts, index) ==
  IF 0 <= index /\ index < Len(insts) THEN Pop(insts, index) ELSE insts

\* a bug regenerate_variant could have: choices = list(range(len(variants)))
RegenChoicesAll(n, current) == 0..(n - 1)

\* [i for i in range(n) if i != current] or list(range(n))
RegenChoices(n, current) ==
  LET others == {i \in 0..(n - 1) : i # current}
  IN IF others # {} THEN others ELSE 0..(n - 1)

\* the values regenerate_variant(index) can draw; {} when it returns early
RegenOutcomes(insts, index) ==
  IF index < 0 \/ index >= Len(insts) THEN {}
  ELSE
    LET inst_obj == insts[index + 1]
    IN IF ~InBank(inst_obj.qid) \/ Get(Q_BY_ID(inst_obj.qid), "static", TRUE) THEN {}
       ELSE
         LET variants == Get(Q_BY_ID(inst_obj.qid), "variants", <<>>)
         IN IF variants = <<>> THEN {}
            ELSE RegenChoices(Len(variants), inst_obj.variant)

\* a bug regenerate_variant could have: the instances of one question sharing
\* one dict, so that every instance of the qid gets the new variant
regenerate_variant_shared(insts, index, v) ==
  [k \in DOMAIN insts |->
     IF insts[k].qid = insts[index + 1].qid
     THEN [insts[k] EXCEPT !.variant = v] ELSE insts[k]]

\* inst_obj["variant"] = v, for the v drawn
regenerate_variant(insts, index, v) ==
  [insts EXCEPT ![index + 1] = [@ EXCEPT !.variant = v]]

---------------------------------------------------------------------------
(* Resolution and export *)

\* step 1 of get_instance_question: the stored variant
WithVariant(base, inst_obj) ==
  LET variant_idx == inst_obj.variant
      variants == Get(base, "variants", <<>>)
      v == PyIndex(variants, variant_idx)
  IN IF ~Get(base, "static", TRUE) /\ variants # <<>> /\ variant_idx # None THEN
       IF v.ok
       THEN Ok(Put(Put(base, "text", Get(v.val, "text", Get(base, "text", <<>>))),
                   "solution", Get(v.val, "solution", Get(base, "solution", <<>>))))
       ELSE v
     ELSE Ok(base)

\* "if params and ...": the instance has a non-empty params dict
ParamsOf(inst_obj) == Get(inst_obj, "params", EmptyDict)

\* step 2, for one template: rendered with the stored params into field of q,
\* unless an earlier step raised
WithTemplate(base, inst_obj, q, template, field) ==
  LET t == Format(base[template], ParamsOf(inst_obj))
  IN IF ~q.ok THEN q
     ELSE IF DOMAIN ParamsOf(inst_obj) # {} /\ template \in DOMAIN base
     THEN IF t.ok THEN Ok(Put(q.val, field, t.val)) ELSE t
     ELSE q

\* q.setdefault(field, base.get(field, ""))
SetDefault(q, base, field) ==
  IF field \in DOMAIN q THEN q ELSE Put(q, field, Get(base, field, <<>>))

get_instance_question(inst_obj) ==
  IF ~InBank(inst_obj.qid) THEN Ok(NoneValue)
  ELSE
    LET base == Q_BY_ID(inst_obj.qid)
        q1 == WithVariant(base, inst_obj)
        q2 == WithTemplate(base, inst_obj, q1, "text_template", "text")
        q3 == WithTemplate(base, inst_obj, q2, "solution_template", "solution")
    IN IF q3.ok
       THEN Ok(SetDefault(SetDefault(q3.val, base, "text"), base, "solution"))
       ELSE q3

\* the lines one instance adds to the test: f"{i}. {text}" and ""
TestEntry(i, inst_q) == << IntToStr(i) \o <<".", " ">> \o Get(inst_q, "text", <<>>), <<>> >>

SolutionLabel == <<"*", "*", "S", "o", "l", "u", "t", "i", "o", "n", ":", "*", "*", " ">>

\* the lines one instance adds to the key
KeyEntry(i, inst_q) ==
  TestEntry(i, inst_q) \o << SolutionLabel \o Get(inst_q, "solution", <<>>), <<>> >>

\* the loop of make_test_markdown over enumerate(instances, start=1), from
\* position i on; it raises as soon as one get_instance_question raises
RECURSIVE TestLines(_, _)
TestLines(insts, i) ==
  IF i > Len(insts) THEN Ok(<<>>)
  ELSE
    LET inst_q == get_instance_question(insts[i])
        rest == TestLines(insts, i + 1)
    IN IF ~inst_q.ok THEN inst_q
       ELSE IF ~rest.ok THEN rest
       ELSE Ok((IF IsNone(inst_q.val) THEN <<>> ELSE TestEntry(i, inst_q.val)) \o rest.val)

\* the loop of make_key_markdown
RECURSIVE KeyLines(_, _)
KeyLines(insts, i) ==
  IF i > Len(insts) THEN Ok(<<>>)
  ELSE
    LET inst_q == get_instance_question(insts[i])
        rest == KeyLines(insts, i + 1)
    IN IF ~inst_q.ok THEN inst_q
       ELSE IF ~rest.ok THEN rest
       ELSE Ok((IF IsNone(inst_q.val) THEN <<>> ELSE KeyEntry(i, inst_q.val)) \o rest.val)

TestTitle == <<"#", " ", "T", "e", "s", "t">>
KeyTitle == <<"#", " ", "A", "n", "s", "w", "e", "r", " ", "K", "e", "y">>

\* a bug make_test_markdown could have: a newline after the last line too
make_test_markdown_trailing(insts) ==
  LET lines == TestLines(insts, 1)
  IN IF lines.ok
     THEN Ok(Join(<<TestTitle, <<>> >> \o lines.val, <<"\n">>) \o <<"\n">>)
     ELSE lines

make_test_markdown(insts) ==
  LET lines == TestLines(insts, 1)
  IN IF lines.ok THEN Ok(Join(<<TestTitle, <<>> >> \o lines.val, <<"\n">>)) ELSE lines

make_key_markdown(insts) ==
  LET lines == KeyLines(insts, 1)
  IN IF lines.ok THEN Ok(Join(<<KeyTitle, <<>> >> \o lines.val, <<"\n">>)) ELSE lines

---------------------------------------------------------------------------
(* The state machine.  instances is st.session_state["instances"].  The     *)
(* other variables record the last call: its name and arguments (op), the   *)
(* list it started from (before) and what it returned or raised (result).   *)
(* trip follows an add_to_test on the empty list and the removals after it. *)

\* the ids a call can name: those of the bank and one that is not in it
IDS == {QUESTIONS[i].id : i \in DOMAIN QUESTIONS} \cup {QX}

\* the lists of n ids
IdLists(n) == [1..n -> IDS]

\* the indices a call is given: every position, and some on either side
Indices == -1..(Len(instances) + 1)

Idle == [active |-> FALSE, n |-> 0, k |-> 0]

Init ==
  /\ instances = <<>>
  /\ before = <<>>
  /\ op = [name |-> "start"]
  /\ result = Ok(NoneValue)
  /\ trip = Idle

AddToTest ==
  \E n \in 0..MaxIds : \E ids \in IdLists(n) :
    /\ Len(instances) + n <= MaxLen
    /\ \E o \in add_to_test(instances, ids) :
         /\ instances' = o.instances
         /\ result' = o.result
    /\ before' = instances
    /\ op' = [name |-> "add_to_test", ids |-> ids]
    /\ trip' = IF instances = <<>> /\ \A i \in DOMAIN ids : InBank(ids[i])
               THEN [active |-> TRUE, n |-> Len(ids), k |-> 0]
               ELSE Idle

MoveUp ==
  \E index \in Indices :
    /\ instances' = move_up(instances, index)
    /\ before' = instances
    /\ op' = [name |-> "move_up", index |-> index]
    /\ result' = Ok(NoneValue)
    /\ trip' = Idle

MoveDown ==
  \E index \in Indices :
    /\ instances' = move_down(instances, index)
    /\ before' = instances
    /\ op' = [name |-> "move_down", index |-> index]
    /\ result' = Ok(NoneValue)
    /\ trip' = Idle

RemoveFromTest ==
  \E index \in Indices :
    /\ instances' = remove_from_test(instances, index)
    /\ before' = instances
    /\ op' = [name |-> "remove_from_test", index |-> index]
    /\ result' = Ok(NoneValue)
    /\ trip' = IF trip.active /\ 0 <= index /\ index < Len(instances)
               THEN [trip EXCEPT !.k = @ + 1]
               ELSE Idle

RegenerateVariant ==
  \E index \in Indices :
    /\ \/ /\ RegenOutcomes(instances, index) = {}
          /\ instances' = instances
       \/ \E v \in RegenOutcomes(instances, index) :
            instances' = regenerate_variant(instances, index, v)
    /\ before' = instances
    /\ op' = [name |-> "regenerate_variant", index |-> index]
    /\ result' = Ok(NoneValue)
    /\ trip' = Idle

\* st.session_state["instances"] = []
ResetTest ==
  /\ instances' = <<>>
  /\ before' = instances
  /\ op' = [name |-> "reset_test"]
  /\ result' = Ok(NoneValue)
  /\ trip' = Idle

MakeTestMarkdown ==
  /\ result' = make_test_markdown(instances)
  /\ before' = instances
  /\ op' = [name |-> "make_test_markdown"]
  /\ UNCHANGED instances
  /\ trip' = Idle

MakeKeyMarkdown ==
  /\ result' = make_key_markdown(instances)
  /\ before' = instances
  /\ op' = [name |-> "make_key_markdown"]
  /\ UNCHANGED instances
  /\ trip' = Idle

Next ==
  \/ AddToTest
  \/ MoveUp
  \/ MoveDown
  \/ RemoveFromTest
  \/ RegenerateVariant
  \/ ResetTest
  \/ MakeTestMarkdown
  \/ MakeKeyMarkdown

Spec == Init /\ [][Next]_vars

---------------------------------------------------------------------------
(* The filter is a pure function of the bank and its arguments: it is       *)
(* checked under a specification of its own, whose one action applies it to *)
(* arguments the sidebar can produce.                                        *)

\* the options of the multiselects: what occurs in the bank
all_courses == UNION {Range(Get(QUESTIONS[i], "courses", <<>>)) : i \in DOMAIN QUESTIONS}
all_qtypes == UNION {Range(Get(QUESTIONS[i], "qtypes", <<>>)) : i \in DOMAIN QUESTIONS}
all_topics == UNION {Range(get_question_topics(QUESTIONS[i])) : i \in DOMAIN QUESTIONS}
static_options == {"Static", "Non-static"}

\* "", " ", "2+2", "ADD", " q1 ", "zz", "\n\t"
SearchTexts ==
  { <<>>, <<" ">>, <<"2", "+", "2">>, <<"A", "D", "D">>, <<" ", "q", "1", " ">>,
    <<"z", "z">>, <<"\n", "\t">> }

NoFilter ==
  [course_filter |-> {}, static_filter |-> {}, qtype_filter |-> {}, topic_filter |-> {},
   search_text |-> <<>>]

\* the script's first run: every multiselect has default=[], the search box is empty
InitFilter ==
  /\ instances = <<>>
  /\ before = <<>>
  /\ op = [name |-> "filtered_questions", filter |-> NoFilter]
  /\ result = Ok(filtered_questions(NoFilter))
  /\ trip = Idle

\* the rerun of the script after one widget changed: bank_qs = filtered_questions(...)
Rerun(f) ==
  /\ f # op.filter
  /\ result' = Ok(filtered_questions(f))
  /\ op' = [name |-> "filtered_questions", filter |-> f]
  /\ UNCHANGED <<instances, before, trip>>

SelectCourses == \E x \in SUBSET all_courses : Rerun([op.filter EXCEPT !.course_filter = x])
SelectStatic == \E x \in SUBSET static_options : Rerun([op.filter EXCEPT !.static_filter = x])
SelectQtypes == \E x \in SUBSET all_qtypes : Rerun([op.filter EXCEPT !.qtype_filter = x])
SelectTopics == \E x \in SUBSET all_topics : Rerun([op.filter EXCEPT !.topic_filter = x])
TypeSearch == \E x \in SearchTexts : Rerun([op.filter EXCEPT !.search_text = x])

NextFilter ==
  \/ SelectCourses
  \/ SelectStatic
  \/ SelectQtypes
  \/ SelectTopics
  \/ TypeSearch

SpecFilter == InitFilter /\ [][NextFilter]_vars

---------------------------------------------------------------------------
(* Properties *)

Question(inst_obj) == Q_BY_ID(inst_obj.qid)
IsStatic(q) == Get(q, "static", TRUE)
NumVariants(q) == Len(Get(q, "variants", <<>>))
Resolves(inst_obj) == get_instance_question(inst_obj).ok
Text(inst_obj) == get_instance_question(inst_obj).val.text
Solution(inst_obj) == get_instance_question(inst_obj).val.solution
InRange(index, insts) == 0 <= index /\ index < Len(insts)

\* C1: every instance of a static question (static=true or no "static" field)
\* resolves to the question's own text and solution, whatever the instance stores.
C1_StaticResolvesToOwnText ==
  \A i \in DOMAIN instances :
    IsStatic(Question(instances[i])) =>
      /\ Resolves(instances[i])
      /\ Text(instances[i]) = Get(Question(instances[i]), "text", <<>>)
      /\ Solution(instances[i]) = Get(Question(instances[i]), "solution", <<>>)

\* C2: when exactly one instance of the list fails to resolve, make_test_markdown
\* and make_key_markdown still return a document, and it contains the entry
\* "<position>. <text>" of every other instance.
C2_ExportIsPartialFailureTolerant ==
  (/\ op.name \in {"make_test_markdown", "make_key_markdown"}
   /\ Cardinality({i \in DOMAIN instances : ~Resolves(instances[i])}) = 1)
  => /\ result.ok
     /\ \A j \in DOMAIN instances :
          Resolves(instances[j]) =>
            Contains(result.val, IntToStr(j) \o <<".", " ">> \o Text(instances[j]))

GenerationFails(qid) ==
  /\ InBank(qid)
  /\ \E p \in generate_params_for_question(Q_BY_ID(qid)) : ~p.ok

\* C3: when exactly one id of add_to_test(ids) names a question whose parameter
\* generation fails, every other id that is in the bank gets its instance
\* appended, in the order of ids, before and after the failing one.
C3_BulkAddIsPartialFailureTolerant ==
  (/\ op.name = "add_to_test"
   /\ Cardinality({i \in DOMAIN op.ids : GenerationFails(op.ids[i])}) = 1)
  => LET good == SelectSeq(op.ids, LAMBDA qid : InBank(qid) /\ ~GenerationFails(qid))
     IN /\ Len(instances) = Len(before) + Len(good)
        /\ SubSeq(instances, 1, Len(before)) = before
        /\ \A k \in DOMAIN good : instances[Len(before) + k].qid = good[k]

\* C4: regenerate_variant(index) on an instance of a non-static question with at
\* least 2 variants leaves a variant that differs from the one before the call
\* and lies in [0, len(variants)); and from every such instance of the list
\* every index other than the current one is a possible outcome.
C4_RegenerateDrawsAnotherVariant ==
  /\ (/\ op.name = "regenerate_variant"
      /\ InRange(op.index, before)
      /\ ~IsStatic(Question(before[op.index + 1]))
      /\ NumVariants(Question(before[op.index + 1])) >= 2)
     => /\ instances[op.index + 1].variant # before[op.index + 1].variant
        /\ instances[op.index + 1].variant \in
             0..(NumVariants(Question(before[op.index + 1])) - 1)
  /\ \A i \in DOMAIN instances :
       (~IsStatic(Question(instances[i])) /\ NumVariants(Question(instances[i])) >= 2)
       => \A v \in 0..(NumVariants(Question(instances[i])) - 1) :
            v # instances[i].variant =>
              ENABLED (/\ RegenerateVariant
                       /\ op'.index = i - 1
                       /\ instances'[i].variant = v)

C4_Witness ==
  /\ op.name = "regenerate_variant"
  /\ InRange(op.index, before)
  /\ ~IsStatic(Question(before[op.index + 1]))
  /\ NumVariants(Question(before[op.index + 1])) >= 2
  /\ instances[op.index + 1].variant = 0
  /\ before[op.index + 1].variant = 2

\* C5: after add_to_test, on the empty list, of N ids that are all in the bank,
\* the list has N instances; each removal at an index in range takes exactly one
\* away, so that N removals leave the list empty.
C5_RoundTrip ==
  trip.active =>
    /\ Len(instances) = trip.n - trip.k
    /\ trip.k = trip.n => instances = <<>>

\* C6: move_up(0), move_down(len - 1), and move_up, move_down and
\* remove_from_test with an index < 0 or >= len leave the list as it was.
C6_BoundaryNoOps ==
  /\ (op.name = "move_up" /\ (op.index = 0 \/ ~InRange(op.index, before)))
       => instances = before
  /\ (op.name = "move_down" /\ (op.index = Len(before) - 1 \/ ~InRange(op.index, before)))
       => instances = before
  /\ (op.name = "remove_from_test" /\ ~InRange(op.index, before))
       => instances = before

C6_Witness ==
  /\ op.name = "remove_from_test"
  /\ op.index = -1
  /\ Len(before) = 2
  /\ before[1] # before[2]

\* the one instance add_to_test(["Q1"]) can create
Q1Instance == [qid |-> Q1.id, variant |-> None]

\* "\n<i>. <text>\n" for the instances from position i on, one after the other
RECURSIVE NumberedEntries(_, _)
NumberedEntries(insts, i) ==
  IF i > Len(insts) THEN <<>>
  ELSE <<"\n">> \o IntToStr(i) \o <<".", " ">> \o Text(insts[i]) \o <<"\n">>
       \o NumberedEntries(insts, i + 1)

\* C7 as the spec states it: for the list holding one instance of Q1,
\* make_test_markdown returns exactly "# Test\n\n1. 2+2=?\n\n".
C7_ScenarioEndsInTwoNewlines ==
  (op.name = "make_test_markdown" /\ instances = <<Q1Instance>>)
  => result = Ok(<<"#", " ", "T", "e", "s", "t", "\n", "\n",
                   "1", ".", " ", "2", "+", "2", "=", "?", "\n", "\n">>)

\* C7 (amended): a document make_test_markdown returns is "# Test\n" followed,
\* for the instances 1..N in the order of the list, by "\n<i>. <text>\n"; for
\* the list holding one instance of Q1 it is exactly "# Test\n\n1. 2+2=?\n",
\* with one newline at its end, and make_key_markdown's document is
\* "# Answer Key\n\n1. 2+2=?\n\n**Solution:** 4\n", which contains "**Solution:** 4".
C7_TestDocumentFormat ==
  /\ (op.name = "make_test_markdown" /\ result.ok)
       => result.val = <<"#", " ", "T", "e", "s", "t", "\n">> \o NumberedEntries(instances, 1)
  /\ (op.name = "make_test_markdown" /\ instances = <<Q1Instance>>)
       => result = Ok(<<"#", " ", "T", "e", "s", "t", "\n", "\n",
                        "1", ".", " ", "2", "+", "2", "=", "?", "\n">>)
  /\ (op.name = "make_key_markdown" /\ instances = <<Q1Instance>>)
       => /\ result = Ok(<<"#", " ", "A", "n", "s", "w", "e", "r", " ", "K", "e", "y",
                           "\n", "\n", "1", ".", " ", "2", "+", "2", "=", "?", "\n", "\n",
                           "*", "*", "S", "o", "l", "u", "t", "i", "o", "n", ":", "*", "*",
                           " ", "4", "\n">>)
          /\ Contains(result.val, <<"*", "*", "S", "o", "l", "u", "t", "i", "o", "n", ":",
                                    "*", "*", " ", "4">>)

C7_Witness ==
  /\ op.name = "make_test_markdown"
  /\ instances = <<Q1Instance>>
  /\ result.ok

\* the list without its element at position i (1-based)
Without(insts, i) == [k \in 1..(Len(insts) - 1) |-> IF k < i THEN insts[k] ELSE insts[k + 1]]

\* C8: add_to_test keeps the instances it found, as they were and where they
\* were; move_up and move_down at most exchange two instances; remove_from_test
\* at most takes one away; regenerate_variant(i) changes at most the variant of
\* the instance at position i, not its qid or params and no other instance.
C8_StoredRandomnessIsFixed ==
  /\ op.name = "add_to_test"
       => /\ Len(instances) >= Len(before)
          /\ SubSeq(instances, 1, Len(before)) = before
  /\ op.name \in {"move_up", "move_down"}
       => /\ Len(instances) = Len(before)
          /\ \/ instances = before
             \/ \E i, j \in DOMAIN before :
                  /\ instances[i] = before[j]
                  /\ instances[j] = before[i]
                  /\ \A k \in DOMAIN before \ {i, j} : instances[k] = before[k]
  /\ op.name = "remove_from_test"
       => \/ instances = before
          \/ \E i \in DOMAIN before : instances = Without(before, i)
  /\ op.name = "regenerate_variant"
       => /\ Len(instances) = Len(before)
          /\ \A k \in DOMAIN before :
               IF k = op.index + 1
               THEN /\ instances[k].qid = before[k].qid
                    /\ DOMAIN instances[k] = DOMAIN before[k]
                    /\ "params" \in DOMAIN before[k] => instances[k].params = before[k].params
               ELSE instances[k] = before[k]

C8_Witness ==
  /\ op.name = "regenerate_variant"
  /\ Len(instances) = 2
  /\ instances[1].qid = instances[2].qid
  /\ instances # before

MatchesFilter(q, f) ==
  question_matches_filters(q, f.course_filter, f.static_filter, f.qtype_filter,
                           f.topic_filter, f.search_text)

Unrestricted(f) ==
  /\ f.course_filter = {}
  /\ f.static_filter = {}
  /\ f.qtype_filter = {}
  /\ f.topic_filter = {}
  /\ \A i \in DOMAIN f.search_text : f.search_text[i] \in Whitespace

\* C9: filtered_questions returns the bank entries that question_matches_filters
\* accepts, each once and in bank order; with every filter set empty and the
\* search text empty or whitespace only, it returns the whole bank in its order.
C9_FilterKeepsMatchesInBankOrder ==
  op.name = "filtered_questions" =>
    /\ result.ok
    /\ \E pos \in [DOMAIN result.val -> DOMAIN QUESTIONS] :
         /\ \A k \in DOMAIN result.val : result.val[k] = QUESTIONS[pos[k]]
         /\ \A k1, k2 \in DOMAIN result.val : k1 < k2 => pos[k1] < pos[k2]
         /\ \A i \in DOMAIN QUESTIONS :
              MatchesFilter(QUESTIONS[i], op.filter) <=> \E k \in DOMAIN result.val : pos[k] = i
    /\ Unrestricted(op.filter) => result.val = QUESTIONS

C9_Witness ==
  /\ op.name = "filtered_questions"
  /\ Unrestricted(op.filter)
  /\ op.filter.search_text = <<"\n", "\t">>
  /\ result.val = QUESTIONS

\* C10: every instance names a question of the bank; its variant is None or an
\* index of the question's variants, and it is an index exactly when the question
\* is non-static with a non-empty list of variants; so variants[variant] in
\* get_instance_question is never out of range.
C10_VariantIsNoneOrInRange ==
  \A i \in DOMAIN instances :
    /\ InBank(instances[i].qid)
    /\ \/ instances[i].variant = None
       \/ instances[i].variant \in 0..(NumVariants(Question(instances[i])) - 1)
    /\ instances[i].variant # None
         <=> (~IsStatic(Question(instances[i])) /\ NumVariants(Question(instances[i])) > 0)
    /\ WithVariant(Question(instances[i]), instances[i]).ok

C10_Witness ==
  /\ op.name = "regenerate_variant"
  /\ instances # before
  /\ \E i \in DOMAIN instances :
       /\ ~IsStatic(Question(instances[i]))
       /\ instances[i].variant = NumVariants(Question(instances[i])) - 1
  /\ \E i \in DOMAIN instances :
       /\ ~IsStatic(Question(instances[i]))
       /\ instances[i].variant = None

====
